---------------------------- MODULE Spec2Model ----------------------------
(***************************************************************************)
(* Model of clients/drcachesim/tools/schedule_stats.cpp: the per-core      *)
(* schedule statistics tool (schedule_stats_t).                            *)
(*                                                                         *)
(* One worker per shard registers its shard (parallel_shard_init_stream),  *)
(* feeds it records one at a time (parallel_shard_memref), finishes        *)
(* (parallel_shard_exit); print_results then sums the shards' counters.    *)
(* knob_verbose_ only selects diagnostic output on std::cerr and is left   *)
(* out; everything else the functions read or write is state here.        *)
(***************************************************************************)
EXTENDS Integers, Sequences, FiniteSets, TLC

VARIABLES
    knob_print_every_,  \* schedule_stats_t::knob_print_every_
    shard_map_,         \* schedule_stats_t::shard_map_: shard_index -> per_shard_t*
    shard_map_mutex_,   \* schedule_stats_t::shard_map_mutex_: its holder, or NoHolder
    heap,               \* the per_shard_t objects, by address
    pc,                 \* each worker's position
    per_shard,          \* parallel_shard_init_stream's local per_shard, per worker
    shard_data,         \* the handle parallel_shard_init_stream returned, per worker
    records,            \* per shard_index: the records its stream has delivered
    num_shards,         \* number of shards the replay engine runs
    results,            \* what print_results reported
    error_string_,      \* analysis_tool_t::error_string_
    returned            \* the last serial-mode call and what it returned

vars == <<knob_print_every_, shard_map_, shard_map_mutex_, heap, pc, per_shard,
          shard_data, records, num_shards, results, error_string_, returned>>

\* What the serial-mode entry points (lines 81-102) write.
serial_vars == <<error_string_, returned>>

----------------------------------------------------------------------------
(* Bounds of the model. *)

\* Largest print_every knob value tried (0 .. MaxPrintEvery).
MaxPrintEvery == 3
\* Records delivered per shard in Spec (two concurrent shards).
MaxParRecords == 2
\* Records delivered to the shard in SpecClassify (one shard, all record kinds).
MaxRecords == 3
\* Records delivered to the shard in SpecRuns (one shard, long runs).
MaxRunRecords == 6
\* Instruction records delivered per shard in SpecQuantum (two shards).
MaxInstrRecords == 5

----------------------------------------------------------------------------
(* Program constants. *)

THREAD_SEPARATOR == ","
WAIT_SYMBOL == "-"
INVALID_THREAD_ID == 0
INVALID_INPUT_ORDINAL == -1
NumLetters == 26

NULL == 0
NoHolder == -1

\* The workers, named by their shard_index, and the addresses new may return.
Workers == {0, 1}
Addrs == {1, 2}
Active == 0 .. (num_shards - 1)

Letters == <<"A", "B", "C", "D", "E", "F", "G", "H", "I", "J", "K", "L", "M",
             "N", "O", "P", "Q", "R", "S", "T", "U", "V", "W", "X", "Y", "Z">>

\* THREAD_LETTER_START + static_cast<char>(input % 26), for input >= 0.
ThreadLetter(input) == Letters[(input % NumLetters) + 1]

----------------------------------------------------------------------------
(* Records: a memref_t together with the input id the shard's stream       *)
(* reports while that record is current (stream->get_input_id()).          *)

Memref(type, marker_type, marker_value, tid) ==
    [type |-> type, marker_type |-> marker_type,
     marker_value |-> marker_value, tid |-> tid]

Delivered(memref, input) == [memref |-> memref, input |-> input]

type_is_instr(type) == type = "TRACE_TYPE_INSTR"

IsCoreWait(memref) ==
    /\ memref.type = "TRACE_TYPE_MARKER"
    /\ memref.marker_type = "TRACE_MARKER_TYPE_CORE_WAIT"

\* The thread id the trace gives the records of an input.
TidOf(input) == input + 1

----------------------------------------------------------------------------
(* per_shard_t and counters_t as constructed.                               *)

NewCounters ==
    [threads |-> {}, instrs |-> 0, total_switches |-> 0,
     voluntary_switches |-> 0, direct_switches |-> 0, syscalls |-> 0,
     maybe_blocking_syscalls |-> 0, direct_switch_requests |-> 0, waits |-> 0]

NewPerShard ==
    [allocated |-> TRUE, stream |-> NULL, core |-> -1, error |-> "",
     counters |-> NewCounters, thread_sequence |-> <<>>,
     prev_input |-> INVALID_INPUT_ORDINAL, cur_segment_instrs |-> 0,
     prev_was_wait |-> FALSE, saw_maybe_blocking |-> FALSE, saw_exit |-> FALSE,
     direct_switch_target |-> INVALID_THREAD_ID]

\* An address that holds no per_shard_t.
Unallocated == [NewPerShard EXCEPT !.allocated = FALSE]

\* stream->get_output_cpuid() of the stream of shard_index.
OutputCpuid(shard_index) == shard_index

----------------------------------------------------------------------------
(* parallel_shard_memref, as a function of the shard, the record and the    *)
(* stream's current input id.                                               *)

\* Mutant of CoreWaitRecord: idling also forgets which input held the core.
CoreWaitRecord_ForgetsInput(shard) ==
    LET s1 == [shard EXCEPT !.counters.waits = @ + 1]
    IN  IF ~s1.prev_was_wait
        THEN [s1 EXCEPT !.thread_sequence = Append(@, WAIT_SYMBOL),
                        !.cur_segment_instrs = 0,
                        !.prev_input = INVALID_INPUT_ORDINAL,
                        !.prev_was_wait = TRUE]
        ELSE LET s2 == [s1 EXCEPT !.cur_segment_instrs = @ + 1]
             IN  IF s2.cur_segment_instrs = knob_print_every_
                 THEN [s2 EXCEPT !.thread_sequence = Append(@, WAIT_SYMBOL)]
                 ELSE s2

\* Mutant of CoreWaitRecord: an idle core forgets the evidence flags.
CoreWaitRecord_ClearsFlags(shard) ==
    LET s1 == [shard EXCEPT !.counters.waits = @ + 1,
                            !.saw_maybe_blocking = FALSE,
                            !.saw_exit = FALSE,
                            !.direct_switch_target = INVALID_THREAD_ID]
    IN  IF ~s1.prev_was_wait
        THEN [s1 EXCEPT !.thread_sequence = Append(@, WAIT_SYMBOL),
                        !.cur_segment_instrs = 0,
                        !.prev_was_wait = TRUE]
        ELSE LET s2 == [s1 EXCEPT !.cur_segment_instrs = @ + 1]
             IN  IF s2.cur_segment_instrs = knob_print_every_
                 THEN [s2 EXCEPT !.thread_sequence = Append(@, WAIT_SYMBOL)]
                 ELSE s2

\* Lines 162-176: a TRACE_MARKER_TYPE_CORE_WAIT marker.
CoreWaitRecord(shard) ==
    LET s1 == [shard EXCEPT !.counters.waits = @ + 1]
    IN  IF ~s1.prev_was_wait
        THEN [s1 EXCEPT !.thread_sequence = Append(@, WAIT_SYMBOL),
                        !.cur_segment_instrs = 0,
                        !.prev_was_wait = TRUE]
        ELSE LET s2 == [s1 EXCEPT !.cur_segment_instrs = @ + 1]
             IN  IF s2.cur_segment_instrs = knob_print_every_
                 THEN [s2 EXCEPT !.thread_sequence = Append(@, WAIT_SYMBOL)]
                 ELSE s2

\* Mutant of VoluntaryCondition: both flags are required.
VoluntaryCondition_Both(shard) == shard.saw_maybe_blocking /\ shard.saw_exit

\* Line 182: the condition under which a switch is counted voluntary.
VoluntaryCondition(shard) == shard.saw_maybe_blocking \/ shard.saw_exit

\* Line 184: the condition under which a switch is counted direct.
DirectCondition(shard, memref) == shard.direct_switch_target = memref.tid

\* Mutant of CountSwitch: the separator is not appended.
CountSwitch_NoSeparator(shard, memref) ==
    [shard EXCEPT
        !.counters.total_switches = @ + 1,
        !.counters.voluntary_switches =
            IF VoluntaryCondition(shard) THEN @ + 1 ELSE @,
        !.counters.direct_switches =
            IF DirectCondition(shard, memref) THEN @ + 1 ELSE @]

\* Mutant of CountSwitch: the switch is classified but not counted.
CountSwitch_Uncounted(shard, memref) ==
    [shard EXCEPT
        !.counters.voluntary_switches =
            IF VoluntaryCondition(shard) THEN @ + 1 ELSE @,
        !.counters.direct_switches =
            IF DirectCondition(shard, memref) THEN @ + 1 ELSE @,
        !.thread_sequence = Append(@, THREAD_SEPARATOR)]

\* Lines 181-189: a switch, counted when the timeline is not empty.
CountSwitch(shard, memref) ==
    [shard EXCEPT
        !.counters.total_switches = @ + 1,
        !.counters.voluntary_switches =
            IF VoluntaryCondition(shard) THEN @ + 1 ELSE @,
        !.counters.direct_switches =
            IF DirectCondition(shard, memref) THEN @ + 1 ELSE @,
        !.thread_sequence = Append(@, THREAD_SEPARATOR)]

\* Mutant of InputChange: the new occupant's letter restarts the timeline.
InputChange_Restarts(shard, memref, input) ==
    IF input # shard.prev_input
    THEN LET s1 == IF shard.thread_sequence # <<>>
                   THEN CountSwitch(shard, memref)
                   ELSE shard
         IN  [s1 EXCEPT !.thread_sequence = <<ThreadLetter(input)>>,
                        !.cur_segment_instrs = 0,
                        !.prev_input = input]
    ELSE shard

\* Lines 177-211: the input of the stream differs from prev_input.
InputChange(shard, memref, input) ==
    IF input # shard.prev_input
    THEN LET s1 == IF shard.thread_sequence # <<>>
                   THEN CountSwitch(shard, memref)
                   ELSE shard
         IN  [s1 EXCEPT !.thread_sequence = Append(@, ThreadLetter(input)),
                        !.cur_segment_instrs = 0,
                        !.prev_input = input]
    ELSE shard

\* Mutant of QuantumMark: the segment count is not reset at the mark.
QuantumMark_NoReset(shard, input) ==
    IF shard.cur_segment_instrs = knob_print_every_
    THEN [shard EXCEPT !.thread_sequence = Append(@, ThreadLetter(input))]
    ELSE shard

\* Lines 215-218: the letter repeated once per print_every instructions.
QuantumMark(shard, input) ==
    IF shard.cur_segment_instrs = knob_print_every_
    THEN [shard EXCEPT !.thread_sequence = Append(@, ThreadLetter(input)),
                       !.cur_segment_instrs = 0]
    ELSE shard

\* Mutant of InstrRecord: saw_exit survives the instruction.
InstrRecord_KeepsExit(shard, memref, input) ==
    IF type_is_instr(memref.type)
    THEN LET s1 == [shard EXCEPT !.counters.instrs = @ + 1,
                                 !.cur_segment_instrs = @ + 1]
             s2 == QuantumMark(s1, input)
         IN  [s2 EXCEPT !.direct_switch_target = INVALID_THREAD_ID,
                        !.saw_maybe_blocking = FALSE]
    ELSE shard

\* Lines 212-222: an instruction record.
InstrRecord(shard, memref, input) ==
    IF type_is_instr(memref.type)
    THEN LET s1 == [shard EXCEPT !.counters.instrs = @ + 1,
                                 !.cur_segment_instrs = @ + 1]
             s2 == QuantumMark(s1, input)
         IN  [s2 EXCEPT !.direct_switch_target = INVALID_THREAD_ID,
                        !.saw_maybe_blocking = FALSE,
                        !.saw_exit = FALSE]
    ELSE shard

\* Lines 223-224: the set of thread ids seen.
ThreadBookkeeping(shard, memref) ==
    IF memref.tid # INVALID_THREAD_ID
    THEN [shard EXCEPT !.counters.threads = @ \cup {memref.tid}]
    ELSE shard

\* Lines 225-237: marker counters and the evidence flags.
MarkerRecord(shard, memref) ==
    IF memref.type = "TRACE_TYPE_MARKER"
    THEN LET s1 == IF memref.marker_type = "TRACE_MARKER_TYPE_SYSCALL"
                   THEN [shard EXCEPT !.counters.syscalls = @ + 1]
                   ELSE shard
             s2 == IF memref.marker_type = "TRACE_MARKER_TYPE_MAYBE_BLOCKING_SYSCALL"
                   THEN [s1 EXCEPT !.counters.maybe_blocking_syscalls = @ + 1,
                                   !.saw_maybe_blocking = TRUE]
                   ELSE s1
         IN  IF memref.marker_type = "TRACE_MARKER_TYPE_DIRECT_THREAD_SWITCH"
             THEN [s2 EXCEPT !.counters.direct_switch_requests = @ + 1,
                             !.direct_switch_target = memref.marker_value]
             ELSE s2
    ELSE IF memref.type = "TRACE_TYPE_THREAD_EXIT"
         THEN [shard EXCEPT !.saw_exit = TRUE]
         ELSE shard

\* Lines 136-240: the whole handler.
MemrefStep(shard, memref, input) ==
    IF IsCoreWait(memref)
    THEN CoreWaitRecord(shard)
    ELSE LET s1 == InputChange(shard, memref, input)
             s2 == InstrRecord(s1, memref, input)
             s3 == ThreadBookkeeping(s2, memref)
             s4 == MarkerRecord(s3, memref)
         IN  [s4 EXCEPT !.prev_was_wait = FALSE]

----------------------------------------------------------------------------
(* The record alphabets of the specifications.                              *)

NonWait(type, marker_type, marker_value, input, tid) ==
    Delivered(Memref(type, marker_type, marker_value, tid), input)

\* A core-wait marker: the stream has no input while the core idles.
WaitRecord ==
    Delivered(Memref("TRACE_TYPE_MARKER", "TRACE_MARKER_TYPE_CORE_WAIT", 0,
                     INVALID_THREAD_ID), INVALID_INPUT_ORDINAL)

InstrOf(input) == NonWait("TRACE_TYPE_INSTR", "NONE", 0, input, TidOf(input))
MarkerOf(marker_type, value, input) ==
    NonWait("TRACE_TYPE_MARKER", marker_type, value, input, TidOf(input))

\* SpecClassify: every kind of record the handler tells apart, two inputs
\* (27 gets its letter through the modulo); data records also come without a
\* valid thread id (line 223 expects such records).
ClassifyInputs == {0, 27}
ClassifyKinds ==
    {<<"TRACE_TYPE_INSTR", "NONE">>,
     <<"TRACE_TYPE_READ", "NONE">>,
     <<"TRACE_TYPE_THREAD_EXIT", "NONE">>,
     <<"TRACE_TYPE_MARKER", "TRACE_MARKER_TYPE_MAYBE_BLOCKING_SYSCALL">>}
ClassifyRecords ==
    {WaitRecord}
    \cup { NonWait(k[1], k[2], 0, i, TidOf(i)) :
             k \in ClassifyKinds, i \in ClassifyInputs }
    \cup { NonWait("TRACE_TYPE_MARKER", "TRACE_MARKER_TYPE_DIRECT_THREAD_SWITCH",
                   TidOf(j), i, TidOf(i)) :
             j \in ClassifyInputs, i \in ClassifyInputs }
    \cup { NonWait("TRACE_TYPE_READ", "NONE", 0, i, INVALID_THREAD_ID) :
             i \in ClassifyInputs }

\* Spec: two concurrent shards, one record of each counted kind.
ParRecords ==
    {WaitRecord, InstrOf(0), InstrOf(1),
     MarkerOf("TRACE_MARKER_TYPE_SYSCALL", 0, 0),
     MarkerOf("TRACE_MARKER_TYPE_MAYBE_BLOCKING_SYSCALL", 0, 0),
     MarkerOf("TRACE_MARKER_TYPE_DIRECT_THREAD_SWITCH", TidOf(1), 0)}

\* SpecRuns: long runs of instructions and waits, with one voluntary switch.
RunRecords ==
    {WaitRecord, InstrOf(0), InstrOf(1),
     MarkerOf("TRACE_MARKER_TYPE_MAYBE_BLOCKING_SYSCALL", 0, 0)}

\* SpecQuantum: instruction records only.
QuantumRecords == {InstrOf(0), InstrOf(27)}

----------------------------------------------------------------------------
\* counters_t::operator+=: the element-wise sum, the thread sets united.
CountersAdd(total, rhs) ==
    [threads |-> total.threads \cup rhs.threads,
     instrs |-> total.instrs + rhs.instrs,
     total_switches |-> total.total_switches + rhs.total_switches,
     voluntary_switches |-> total.voluntary_switches + rhs.voluntary_switches,
     direct_switches |-> total.direct_switches + rhs.direct_switches,
     syscalls |-> total.syscalls + rhs.syscalls,
     maybe_blocking_syscalls |->
         total.maybe_blocking_syscalls + rhs.maybe_blocking_syscalls,
     direct_switch_requests |->
         total.direct_switch_requests + rhs.direct_switch_requests,
     waits |-> total.waits + rhs.waits]

NoResults ==
    [printed |-> FALSE, cores |-> 0, total |-> NewCounters,
     total_block |-> << >>, core_blocks |-> << >>, schedules |-> << >>]

\* No serial-mode call yet.  A call is recorded with its argument, the
\* message it returned (the empty string where it returns a bool) and whether
\* it reported success (an empty message, or true).
NoCall == [call |-> "none", arg |-> "none", message |-> "", success |-> TRUE]

(* State after construction (lines 67-72): an empty registry, no shard.     *)

InitWith(shardCounts, knobs) ==
    /\ knob_print_every_ \in knobs
    /\ num_shards \in shardCounts
    /\ shard_map_ = << >>
    /\ shard_map_mutex_ = NoHolder
    /\ heap = [a \in Addrs |-> Unallocated]
    /\ pc = [w \in Workers |-> "new"]
    /\ per_shard = [w \in Workers |-> NULL]
    /\ shard_data = [w \in Workers |-> NULL]
    /\ records = [w \in Workers |-> << >>]
    /\ results = NoResults
    /\ error_string_ = ""
    /\ returned = NoCall

Init == InitWith(1 .. Cardinality(Workers), {MaxPrintEvery})
InitOne == InitWith({1}, 0 .. MaxPrintEvery)
InitTwo == InitWith({2}, 0 .. MaxPrintEvery)

----------------------------------------------------------------------------
(* parallel_shard_init_stream(shard_index = w), lines 110-120, one action   *)
(* per statement: the calls of different workers interleave.                *)

\* Line 114: new per_shard_t; the allocator hands out the lowest free address.
NewShard(w) ==
    /\ w \in Active
    /\ pc[w] = "new"
    /\ \E a \in Addrs :
          /\ ~heap[a].allocated
          /\ \A b \in Addrs : ~heap[b].allocated => a <= b
          /\ heap' = [heap EXCEPT ![a] = NewPerShard]
          /\ per_shard' = [per_shard EXCEPT ![w] = a]
    /\ pc' = [pc EXCEPT ![w] = "lock"]
    /\ UNCHANGED serial_vars
    /\ UNCHANGED <<knob_print_every_, shard_map_, shard_map_mutex_, shard_data,
                   records, num_shards, results>>

\* Mutant of MutexFree: the guard does not wait for the holder.
MutexFree_Always == TRUE

\* The condition under which the lock_guard's constructor returns.
MutexFree == shard_map_mutex_ = NoHolder

\* Line 115: std::lock_guard<std::mutex> guard(shard_map_mutex_).
LockMutex(w) ==
    /\ pc[w] = "lock"
    /\ MutexFree
    /\ shard_map_mutex_' = w
    /\ pc' = [pc EXCEPT ![w] = "fill"]
    /\ UNCHANGED serial_vars
    /\ UNCHANGED <<knob_print_every_, shard_map_, heap, per_shard, shard_data,
                   records, num_shards, results>>

\* Lines 116-117: per_shard->stream and per_shard->core.
FillShard(w) ==
    /\ pc[w] = "fill"
    /\ heap' = [heap EXCEPT ![per_shard[w]].stream = w + 1,
                            ![per_shard[w]].core = OutputCpuid(w)]
    /\ pc' = [pc EXCEPT ![w] = "index"]
    /\ UNCHANGED serial_vars
    /\ UNCHANGED <<knob_print_every_, shard_map_, shard_map_mutex_, per_shard,
                   shard_data, records, num_shards, results>>

\* Line 118, shard_map_[shard_index]: the entry, created null when absent.
IndexMap(w) ==
    /\ pc[w] = "index"
    /\ shard_map_' = IF w \in DOMAIN shard_map_
                     THEN shard_map_
                     ELSE shard_map_ @@ (w :> NULL)
    /\ pc' = [pc EXCEPT ![w] = "assign"]
    /\ UNCHANGED serial_vars
    /\ UNCHANGED <<knob_print_every_, shard_map_mutex_, heap, per_shard,
                   shard_data, records, num_shards, results>>

\* Line 118, ... = per_shard: the store into the entry.
AssignMap(w) ==
    /\ pc[w] = "assign"
    /\ shard_map_' = [shard_map_ EXCEPT ![w] = per_shard[w]]
    /\ pc' = [pc EXCEPT ![w] = "return"]
    /\ UNCHANGED serial_vars
    /\ UNCHANGED <<knob_print_every_, shard_map_mutex_, heap, per_shard,
                   shard_data, records, num_shards, results>>

\* Line 119: return per_shard; the guard's destructor releases the mutex.
ReturnShard(w) ==
    /\ pc[w] = "return"
    /\ shard_data' = [shard_data EXCEPT ![w] = per_shard[w]]
    /\ shard_map_mutex_' = NoHolder
    /\ pc' = [pc EXCEPT ![w] = "run"]
    /\ UNCHANGED serial_vars
    /\ UNCHANGED <<knob_print_every_, shard_map_, heap, per_shard, records,
                   num_shards, results>>

InitStream(w) ==
    \/ NewShard(w)
    \/ LockMutex(w)
    \/ FillShard(w)
    \/ IndexMap(w)
    \/ AssignMap(w)
    \/ ReturnShard(w)

----------------------------------------------------------------------------
(* parallel_shard_memref(shard_data, memref), lines 136-240.                *)

\* Mutant of ShardOf: every handler works on the first shard allocated.
ShardOf_Lowest(w) ==
    CHOOSE a \in Addrs :
       heap[a].allocated /\ \A b \in Addrs : heap[b].allocated => a <= b

\* Line 142: the shard the handler works on.
ShardOf(w) == shard_data[w]

ParallelShardMemref(w, rec) ==
    /\ pc[w] = "run"
    /\ records' = [records EXCEPT ![w] = Append(@, rec)]
    /\ heap' = [heap EXCEPT ![ShardOf(w)] = MemrefStep(@, rec.memref, rec.input)]
    /\ UNCHANGED serial_vars
    /\ UNCHANGED <<knob_print_every_, shard_map_, shard_map_mutex_, pc,
                   per_shard, shard_data, num_shards, results>>

\* Lines 122-127: parallel_shard_exit changes nothing; the worker is done.
ParallelShardExit(w) ==
    /\ pc[w] = "run"
    /\ pc' = [pc EXCEPT ![w] = "done"]
    /\ UNCHANGED serial_vars
    /\ UNCHANGED <<knob_print_every_, shard_map_, shard_map_mutex_, heap,
                   per_shard, shard_data, records, num_shards, results>>

----------------------------------------------------------------------------
(* print_results, lines 277-297, called once every worker has finished.     *)

\* The orders in which a range-for may visit the keys of the unordered_map.
RECURSIVE VisitOrders(_)
VisitOrders(keys) ==
    IF keys = {}
    THEN {<< >>}
    ELSE UNION { { <<k>> \o rest : rest \in VisitOrders(keys \ {k}) } : k \in keys }

\* Mutant of TotalCounters: each shard's counters are assigned, not added.
TotalCounters_Last(order) ==
    IF order = << >>
    THEN NewCounters
    ELSE heap[shard_map_[order[Len(order)]]].counters

\* Lines 282-285: counters_t total; for (shard : shard_map_) total += counters.
RECURSIVE TotalCounters(_)
TotalCounters(order) ==
    IF order = << >>
    THEN NewCounters
    ELSE CountersAdd(TotalCounters(SubSeq(order, 1, Len(order) - 1)),
                     heap[shard_map_[order[Len(order)]]].counters)

\* Line 286: shard_map_.size().
MapSize == Cardinality(DOMAIN shard_map_)

\* One line of a counter block: what is printed and its value.
Line(label, value) == [label |-> label, value |-> value]

\* x / static_cast<double>(y): the division as performed; with den = 0 the
\* quotient is an infinity or a NaN.
Divide(num, den) == [num |-> num, den |-> den]

\* Mutant of PercentLines: the percentages are printed unguarded.
PercentLines_Always(counters) ==
    << Line("% voluntary switches",
            Divide(100 * counters.voluntary_switches, counters.total_switches)),
       Line("% direct switches",
            Divide(100 * counters.direct_switches, counters.total_switches)) >>

\* Lines 258-268: the percentages, under if (counters.total_switches > 0).
PercentLines(counters) ==
    IF counters.total_switches > 0
    THEN << Line("% voluntary switches",
                 Divide(100 * counters.voluntary_switches, counters.total_switches)),
            Line("% direct switches",
                 Divide(100 * counters.direct_switches, counters.total_switches)) >>
    ELSE << >>

\* Lines 242-275: print_counters, the lines in the order printed.
PrintCounters(counters) ==
    << Line("threads", Cardinality(counters.threads)),
       Line("instructions", counters.instrs),
       Line("total context switches", counters.total_switches),
       Line("CSPKI", Divide(1000 * counters.total_switches, counters.instrs)),
       Line("instructions per context switch",
            Divide(counters.instrs, counters.total_switches)),
       Line("voluntary context switches", counters.voluntary_switches),
       Line("direct context switches", counters.direct_switches) >>
    \o PercentLines(counters)
    \o << Line("system calls", counters.syscalls),
          Line("maybe-blocking system calls", counters.maybe_blocking_syscalls),
          Line("direct switch requests", counters.direct_switch_requests),
          Line("waits", counters.waits) >>

\* Lines 288-291: one counter block per core, in the order visited.
CoreBlocks(order) ==
    [i \in 1 .. Len(order) |->
        [core |-> heap[shard_map_[order[i]]].core,
         lines |-> PrintCounters(heap[shard_map_[order[i]]].counters)]]

\* Lines 292-295: one schedule line per core, in the order visited.
Schedules(order) ==
    [i \in 1 .. Len(order) |->
        [core |-> heap[shard_map_[order[i]]].core,
         schedule |-> heap[shard_map_[order[i]]].thread_sequence]]

PrintResults ==
    /\ \A w \in Active : pc[w] = "done"
    /\ ~results.printed
    /\ \E order \in VisitOrders(DOMAIN shard_map_) :
          results' = [printed |-> TRUE, cores |-> MapSize,
                      total |-> TotalCounters(order),
                      total_block |-> PrintCounters(TotalCounters(order)),
                      core_blocks |-> CoreBlocks(order),
                      schedules |-> Schedules(order)]
    /\ UNCHANGED serial_vars
    /\ UNCHANGED <<knob_print_every_, shard_map_, shard_map_mutex_, heap, pc,
                   per_shard, shard_data, records, num_shards>>

----------------------------------------------------------------------------
(* The serial-mode entry points, lines 81-102.                              *)

ONLY_CORE_SHARDED == "Only core-sharded operation is supported"

\* Mutant of initialize_stream: the serial stream is not looked at.
initialize_stream_Accepts(serial_stream) == ""

\* Lines 81-87: the message initialize_stream returns.
initialize_stream(serial_stream) ==
    IF serial_stream # "nullptr" THEN ONLY_CORE_SHARDED ELSE ""

\* Lines 89-95: the message initialize_shard_type returns.
initialize_shard_type(shard_type) ==
    IF shard_type # "SHARD_BY_CORE" THEN ONLY_CORE_SHARDED ELSE ""

\* The serial streams and shard types the analyzer may pass.
SerialStreams == {"nullptr", "serial_stream"}
ShardTypes == {"SHARD_BY_THREAD", "SHARD_BY_CORE"}

InitializeStream ==
    \E serial_stream \in SerialStreams :
       /\ returned' = [call |-> "initialize_stream", arg |-> serial_stream,
                       message |-> initialize_stream(serial_stream),
                       success |-> initialize_stream(serial_stream) = ""]
       /\ UNCHANGED <<knob_print_every_, shard_map_, shard_map_mutex_, heap, pc,
                      per_shard, shard_data, records, num_shards, results,
                      error_string_>>

InitializeShardType ==
    \E shard_type \in ShardTypes :
       /\ returned' = [call |-> "initialize_shard_type", arg |-> shard_type,
                       message |-> initialize_shard_type(shard_type),
                       success |-> initialize_shard_type(shard_type) = ""]
       /\ UNCHANGED <<knob_print_every_, shard_map_, shard_map_mutex_, heap, pc,
                      per_shard, shard_data, records, num_shards, results,
                      error_string_>>

\* Lines 97-102: process_memref sets error_string_ and returns false.
ProcessMemref ==
    /\ error_string_' = "Only core-sharded operation is supported."
    /\ returned' = [call |-> "process_memref", arg |-> "memref",
                    message |-> "", success |-> FALSE]
    /\ UNCHANGED <<knob_print_every_, shard_map_, shard_map_mutex_, heap, pc,
                   per_shard, shard_data, records, num_shards, results>>

----------------------------------------------------------------------------
(* The specifications: the same program, fed from different record sets.    *)

Feed(w, recs, bound) ==
    \E rec \in recs :
       /\ Len(records[w]) < bound
       /\ ParallelShardMemref(w, rec)

Next ==
    \/ \E w \in Workers : InitStream(w)
    \/ \E w \in Workers : Feed(w, ParRecords, MaxParRecords)
    \/ \E w \in Workers : ParallelShardExit(w)
    \/ PrintResults

NextClassify ==
    \/ \E w \in Workers : InitStream(w)
    \/ \E w \in Workers : Feed(w, ClassifyRecords, MaxRecords)
    \/ \E w \in Workers : ParallelShardExit(w)
    \/ PrintResults

NextRuns ==
    \/ \E w \in Workers : InitStream(w)
    \/ \E w \in Workers : Feed(w, RunRecords, MaxRunRecords)
    \/ \E w \in Workers : ParallelShardExit(w)
    \/ PrintResults

NextQuantum ==
    \/ \E w \in Workers : InitStream(w)
    \/ \E w \in Workers : Feed(w, QuantumRecords, MaxInstrRecords)
    \/ \E w \in Workers : ParallelShardExit(w)
    \/ PrintResults

\* The analyzer also calls the serial-mode entry points, at any time.
NextSerial ==
    \/ InitializeStream
    \/ InitializeShardType
    \/ ProcessMemref
    \/ \E w \in Workers : InitStream(w)
    \/ \E w \in Workers : Feed(w, QuantumRecords, MaxParRecords)
    \/ \E w \in Workers : ParallelShardExit(w)
    \/ PrintResults

Spec == Init /\ [][Next]_vars
SpecSerial == Init /\ [][NextSerial]_vars
SpecClassify == InitOne /\ [][NextClassify]_vars
SpecRuns == InitOne /\ [][NextRuns]_vars
SpecQuantum == InitTwo /\ [][NextQuantum]_vars

----------------------------------------------------------------------------
(* What the record sequence of a shard says, independently of the shard's   *)
(* fields: the vocabulary of the properties below.                          *)

IsWait(rec) == IsCoreWait(rec.memref)
IsInstr(rec) == rec.memref.type = "TRACE_TYPE_INSTR"
IsMarker(rec, marker_type) ==
    /\ rec.memref.type = "TRACE_TYPE_MARKER"
    /\ rec.memref.marker_type = marker_type
IsExit(rec) == rec.memref.type = "TRACE_TYPE_THREAD_EXIT"

MaxOf(S) == CHOOSE x \in S : \A y \in S : y <= x

\* Index of the last non-wait record of tr, 0 when there is none.
LastNonWait(tr) == MaxOf({0} \cup {i \in 1 .. Len(tr) : ~IsWait(tr[i])})

\* The input occupying the core after tr, INVALID_INPUT_ORDINAL when none has.
Occupant(tr) ==
    IF LastNonWait(tr) = 0 THEN INVALID_INPUT_ORDINAL ELSE tr[LastNonWait(tr)].input

\* Index of the first record of the occupant's current stay on the core.
StayStart(tr) ==
    1 + MaxOf({0} \cup {i \in 1 .. Len(tr) :
                          ~IsWait(tr[i]) /\ tr[i].input # Occupant(tr)})

\* Index of the last instruction record of tr, 0 when there is none.
LastInstr(tr) == MaxOf({0} \cup {i \in 1 .. Len(tr) : IsInstr(tr[i])})

\* The records of the occupant since its last instruction record.
SinceBoundary(tr) ==
    { i \in 1 .. Len(tr) : i >= StayStart(tr) /\ i > LastInstr(tr) }

VoluntaryEvidence(tr) ==
    \E i \in SinceBoundary(tr) :
       \/ IsMarker(tr[i], "TRACE_MARKER_TYPE_MAYBE_BLOCKING_SYSCALL")
       \/ IsExit(tr[i])

DirectEvidence(tr, tid) ==
    \E i \in SinceBoundary(tr) :
       /\ IsMarker(tr[i], "TRACE_MARKER_TYPE_DIRECT_THREAD_SWITCH")
       /\ tr[i].memref.marker_value = tid

\* The shard of worker w, once parallel_shard_init_stream has returned it.
Registered(w) == shard_data[w] # NULL
Shard(w) == heap[shard_data[w]]

\* Worker w's shard has just processed one more record.
Processed(w) ==
    /\ Registered(w)
    /\ Len(records'[w]) = Len(records[w]) + 1
Current(w) == records'[w][Len(records'[w])]

\* The record just processed switches the core from one input to another.
SwitchStep(w) ==
    /\ Processed(w)
    /\ ~IsWait(Current(w))
    /\ Occupant(records[w]) # INVALID_INPUT_ORDINAL
    /\ Current(w).input # Occupant(records[w])

Count(seq, ch) == Cardinality({i \in 1 .. Len(seq) : seq[i] = ch})

----------------------------------------------------------------------------
(* C1: a detected switch is counted voluntary if and only if the outgoing   *)
(* occupant produced a MAYBE_BLOCKING_SYSCALL marker or a thread exit since *)
(* its own last instruction record; evidence of an earlier occupant does    *)
(* not count.                                                               *)
C1_VoluntaryIffEvidence ==
    [][\A w \in Workers :
          SwitchStep(w) =>
             ( (Shard(w).counters.voluntary_switches' =
                   Shard(w).counters.voluntary_switches + 1)
               <=> VoluntaryEvidence(records[w]) )]_vars

(* C2: a detected switch is counted direct if and only if a                 *)
(* DIRECT_THREAD_SWITCH marker naming the incoming record's thread id       *)
(* occurred since the outgoing occupant's last instruction record.          *)
C2_DirectIffRequested ==
    [][\A w \in Workers :
          SwitchStep(w) =>
             ( (Shard(w).counters.direct_switches' =
                   Shard(w).counters.direct_switches + 1)
               <=> DirectEvidence(records[w], Current(w).memref.tid) )]_vars

(* C3 as stated: a non-wait record whose input Y differs from the input X  *)
(* in prev_input appends exactly one separator and one letter for Y and     *)
(* nothing else, and adds exactly 1 to total_switches, whatever the record  *)
(* kind and print_every.                                                    *)
InputChangeStep(w) ==
    /\ Processed(w)
    /\ ~IsWait(Current(w))
    /\ Shard(w).prev_input # INVALID_INPUT_ORDINAL
    /\ Current(w).input # Shard(w).prev_input

C3_SwitchAppendsOnlySeparatorAndLetter ==
    [][\A w \in Workers :
          InputChangeStep(w) =>
             /\ Shard(w).thread_sequence' =
                   Shard(w).thread_sequence
                      \o <<THREAD_SEPARATOR, ThreadLetter(Current(w).input)>>
             /\ Shard(w).counters.total_switches' =
                   Shard(w).counters.total_switches + 1]_vars

(* C3 amended: the record appends one separator and one letter for Y, adds  *)
(* 1 to total_switches, and appends nothing else except one further letter  *)
(* for Y when the record is an instruction and print_every is 1.            *)
C3_SwitchAppendsSeparatorLetterAndQuantum ==
    [][\A w \in Workers :
          InputChangeStep(w) =>
             /\ Shard(w).thread_sequence' =
                   Shard(w).thread_sequence
                      \o <<THREAD_SEPARATOR, ThreadLetter(Current(w).input)>>
                      \o (IF IsInstr(Current(w)) /\ knob_print_every_ = 1
                          THEN <<ThreadLetter(Current(w).input)>>
                          ELSE << >>)
             /\ Shard(w).counters.total_switches' =
                   Shard(w).counters.total_switches + 1]_vars

\* A switch made by an instruction record with print_every = 1, and one made
\* by a data record, have both been processed.
C3_Witness ==
    \E w \in Workers :
       /\ Registered(w)
       /\ knob_print_every_ = 1
       /\ Len(records[w]) = 3
       /\ records[w][1].input = 0
       /\ records[w][2].input = 27 /\ IsInstr(records[w][2])
       /\ records[w][3].input = 0 /\ records[w][3].memref.type = "TRACE_TYPE_READ"
       /\ Shard(w).counters.total_switches = 2

----------------------------------------------------------------------------
(* C4: a run of k >= 1 consecutive CORE_WAIT records adds one wait          *)
(* character for the first wait and one more per print_every further waits, *)
(* so the timeline holds 1 + (k - 1) \div print_every wait characters per   *)
(* run (print_every >= 1).                                                  *)

\* The position of wait record i within its run of consecutive waits.
RunPosition(tr, i) ==
    i - MaxOf({0} \cup {j \in 1 .. (i - 1) : ~IsWait(tr[j])})

ExpectedWaitChars(tr, every) ==
    Cardinality({ i \in 1 .. Len(tr) :
                    IsWait(tr[i]) /\ (RunPosition(tr, i) - 1) % every = 0 })

C4_WaitCharPerQuantum ==
    \A w \in Workers :
       (Registered(w) /\ knob_print_every_ >= 1) =>
          Count(Shard(w).thread_sequence, WAIT_SYMBOL)
             = ExpectedWaitChars(records[w], knob_print_every_)

----------------------------------------------------------------------------
(* C5: a fresh shard fed n >= 1 instruction records of one input and        *)
(* nothing else (print_every >= 1) has cur_segment_instrs = n mod           *)
(* print_every, hence 0 exactly after every print_every-th instruction, and *)
(* its timeline is the input's letter 1 + n \div print_every times; two     *)
(* fresh shards fed the same such sequence agree on timeline and counters.  *)
SingleInputInstrs(tr) ==
    /\ Len(tr) >= 1
    /\ \A i \in 1 .. Len(tr) : IsInstr(tr[i]) /\ tr[i].input = tr[1].input

C5_QuantumOfInstructions ==
    /\ \A w \in Workers :
          (Registered(w) /\ knob_print_every_ >= 1 /\ SingleInputInstrs(records[w])) =>
             LET n == Len(records[w])
             IN  /\ Shard(w).cur_segment_instrs = n % knob_print_every_
                 /\ Shard(w).thread_sequence =
                       [k \in 1 .. (1 + (n \div knob_print_every_)) |->
                           ThreadLetter(records[w][1].input)]
    /\ \A w1, w2 \in Workers :
          ( /\ Registered(w1) /\ Registered(w2)
            /\ SingleInputInstrs(records[w1])
            /\ records[w1] = records[w2] ) =>
             /\ Shard(w1).thread_sequence = Shard(w2).thread_sequence
             /\ Shard(w1).counters = Shard(w2).counters

\* Both shards have run the same five instructions of input 27 with
\* print_every = 2: two full quanta and one instruction over.
C5_Witness ==
    /\ knob_print_every_ = 2
    /\ Registered(0) /\ Registered(1)
    /\ records[0] = records[1]
    /\ Len(records[0]) = 5
    /\ SingleInputInstrs(records[0])
    /\ records[0][1].input = 27
    /\ Shard(0).thread_sequence = <<"B", "B", "B">>
    /\ Shard(1).cur_segment_instrs = 1

----------------------------------------------------------------------------
(* C6: with print_every = 3, a fresh shard that processes three             *)
(* instructions of input 0, a MAYBE_BLOCKING_SYSCALL marker of input 0 and  *)
(* one instruction of input 1 has timeline "AA,B", one total switch, one    *)
(* voluntary switch and no direct switch.                                   *)
C6_Scenario ==
    <<InstrOf(0), InstrOf(0), InstrOf(0),
      MarkerOf("TRACE_MARKER_TYPE_MAYBE_BLOCKING_SYSCALL", 0, 0), InstrOf(1)>>

C6_ScenarioRun(w) ==
    /\ Registered(w)
    /\ knob_print_every_ = 3
    /\ records[w] = C6_Scenario

C6_EndToEnd ==
    \A w \in Workers :
       C6_ScenarioRun(w) =>
          /\ Shard(w).thread_sequence = <<"A", "A", ",", "B">>
          /\ Shard(w).counters.total_switches = 1
          /\ Shard(w).counters.voluntary_switches = 1
          /\ Shard(w).counters.direct_switches = 0

\* The scenario has been run to its end.
C6_Witness == \E w \in Workers : C6_ScenarioRun(w) /\ Shard(w).counters.instrs = 4

----------------------------------------------------------------------------
(* C7: when the core idles (one or more CORE_WAIT records) and then         *)
(* resumes the input X that occupied it, the resuming record is no switch:  *)
(* the three switch counters stay and no separator is appended.             *)
ResumeStep(w) ==
    /\ Processed(w)
    /\ ~IsWait(Current(w))
    /\ Len(records[w]) >= 1
    /\ IsWait(records[w][Len(records[w])])
    /\ Occupant(records[w]) # INVALID_INPUT_ORDINAL
    /\ Current(w).input = Occupant(records[w])

C7_ResumeAfterWaitIsNoSwitch ==
    [][\A w \in Workers :
          ResumeStep(w) =>
             /\ Shard(w).counters.total_switches' = Shard(w).counters.total_switches
             /\ Shard(w).counters.voluntary_switches' =
                   Shard(w).counters.voluntary_switches
             /\ Shard(w).counters.direct_switches' = Shard(w).counters.direct_switches
             /\ Count(Shard(w).thread_sequence', THREAD_SEPARATOR) =
                   Count(Shard(w).thread_sequence, THREAD_SEPARATOR)]_vars

\* Input 27 ran, the core waited, and input 27 resumed.
C7_Witness ==
    \E w \in Workers :
       /\ Registered(w)
       /\ Len(records[w]) = 3
       /\ ~IsWait(records[w][1]) /\ records[w][1].input = 27
       /\ IsWait(records[w][2])
       /\ ~IsWait(records[w][3]) /\ records[w][3].input = 27
       /\ Shard(w).thread_sequence = <<"B", "-">>

----------------------------------------------------------------------------
(* C8: under every interleaving of the workers' per-record calls, each      *)
(* shard's timeline and counters are what its own record sequence produces  *)
(* on a shard run with no other worker.                                     *)
RECURSIVE RunAlone(_, _)
RunAlone(shard, tr) ==
    IF tr = << >>
    THEN shard
    ELSE MemrefStep(RunAlone(shard, SubSeq(tr, 1, Len(tr) - 1)),
                    tr[Len(tr)].memref, tr[Len(tr)].input)

C8_ShardsIndependent ==
    \A w \in Workers :
       Registered(w) =>
          /\ Shard(w).thread_sequence =
                RunAlone(NewPerShard, records[w]).thread_sequence
          /\ Shard(w).counters = RunAlone(NewPerShard, records[w]).counters

\* Two shards have each processed two records, not the same ones.
C8_Witness ==
    /\ Registered(0) /\ Registered(1)
    /\ Len(records[0]) = 2 /\ Len(records[1]) = 2
    /\ Shard(0).thread_sequence = <<"A", ",", "B">>
    /\ Shard(1).thread_sequence = <<"-", ",", "A">>

----------------------------------------------------------------------------
(* C9: shard_map_ changes only in a step of parallel_shard_init_stream      *)
(* taken by the worker that holds shard_map_mutex_, and once every          *)
(* registration call has returned the registry holds exactly one allocated  *)
(* per_shard_t per registered shard index, the one returned to its caller.  *)
MapChangeUnderLock ==
    shard_map_' # shard_map_ =>
       \E w \in Workers :
          /\ shard_map_mutex_ = w
          /\ pc[w] \in {"index", "assign"}
          /\ pc'[w] # pc[w]

AllReturned == \A w \in Active : pc[w] \in {"run", "done"}

RegistryExact ==
    /\ DOMAIN shard_map_ = Active
    /\ \A w \in Active :
          /\ shard_map_[w] = shard_data[w]
          /\ shard_map_[w] \in Addrs
          /\ heap[shard_map_[w]].allocated
    /\ \A w1, w2 \in Active : w1 # w2 => shard_map_[w1] # shard_map_[w2]

C9_RegistryOnlyUnderLock ==
    /\ [][MapChangeUnderLock]_vars
    /\ [](AllReturned => RegistryExact)

\* Two registrations overlapped (worker 1 allocated first, worker 0 took the
\* lock first) and both have returned.
C9_Witness ==
    /\ num_shards = 2
    /\ AllReturned
    /\ shard_data[1] = 1 /\ shard_data[0] = 2

----------------------------------------------------------------------------
(* C10: after every worker has finished, each numeric total print_results   *)
(* reports is the sum of that counter over the registered shards, and the   *)
(* core count is the number of registered shards.                           *)
NumericCounters ==
    {"instrs", "total_switches", "voluntary_switches", "direct_switches",
     "syscalls", "maybe_blocking_syscalls", "direct_switch_requests", "waits"}

RegisteredWorkers == {w \in Workers : Registered(w)}

RECURSIVE SumOfCounter(_, _)
SumOfCounter(ws, name) ==
    IF ws = {}
    THEN 0
    ELSE LET w == CHOOSE x \in ws : TRUE
         IN  Shard(w).counters[name] + SumOfCounter(ws \ {w}, name)

C10_TotalsAreSums ==
    results.printed =>
       /\ results.cores = Cardinality(RegisteredWorkers)
       /\ \A name \in NumericCounters :
             results.total[name] = SumOfCounter(RegisteredWorkers, name)

\* Two shards with different non-zero counters have been reported.
C10_Witness ==
    /\ results.printed
    /\ results.cores = 2
    /\ Shard(0).counters.instrs = 2
    /\ Shard(1).counters.instrs = 1
    /\ Shard(1).counters.waits = 1
    /\ Shard(0).counters.total_switches = 1
    /\ results.total.instrs = 3

----------------------------------------------------------------------------
(* The counter blocks of the report, each with the counters it was printed  *)
(* from: the total block and one block per core.                            *)
ReportedBlocks ==
    {[lines |-> results.total_block, counters |-> results.total]}
    \cup { [lines |-> results.core_blocks[i].lines,
            counters |-> heap[shard_map_[results.core_blocks[i].core]].counters] :
             i \in 1 .. Len(results.core_blocks) }

LinesOf(block, label) ==
    { i \in 1 .. Len(block.lines) : block.lines[i].label = label }

HasLine(block, label) == Cardinality(LinesOf(block, label)) = 1

ValueOf(block, label) ==
    block.lines[CHOOSE i \in LinesOf(block, label) : TRUE].value

(* C11: in every counter block of the report, neither the switches per 1000 *)
(* instructions nor the instructions per switch is a division by 0: with    *)
(* instrs = 0, or total_switches = 0, the ratio is not computed.            *)
C11_RatiosGuarded ==
    results.printed =>
       \A block \in ReportedBlocks :
          /\ \A i \in LinesOf(block, "CSPKI") : block.lines[i].value.den # 0
          /\ \A i \in LinesOf(block, "instructions per context switch") :
                block.lines[i].value.den # 0

(* C12: in every counter block the two percentage lines are printed exactly *)
(* when total_switches > 0, then with total_switches as the divisor, and    *)
(* the lines for syscalls, maybe-blocking syscalls, direct-switch requests  *)
(* and waits are printed whether or not total_switches is 0.                *)
PercentLabels == {"% voluntary switches", "% direct switches"}

C12_PercentagesGuarded ==
    results.printed =>
       \A block \in ReportedBlocks :
          /\ \A label \in PercentLabels :
                /\ HasLine(block, label) <=> block.counters.total_switches > 0
                /\ LinesOf(block, label) = {} <=> block.counters.total_switches = 0
                /\ \A i \in LinesOf(block, label) :
                      block.lines[i].value.den = block.counters.total_switches
          /\ HasLine(block, "% voluntary switches") =>
                ValueOf(block, "% voluntary switches").num =
                   100 * block.counters.voluntary_switches
          /\ HasLine(block, "% direct switches") =>
                ValueOf(block, "% direct switches").num =
                   100 * block.counters.direct_switches
          /\ HasLine(block, "system calls")
          /\ ValueOf(block, "system calls") = block.counters.syscalls
          /\ HasLine(block, "maybe-blocking system calls")
          /\ ValueOf(block, "maybe-blocking system calls") =
                block.counters.maybe_blocking_syscalls
          /\ HasLine(block, "direct switch requests")
          /\ ValueOf(block, "direct switch requests") =
                block.counters.direct_switch_requests
          /\ HasLine(block, "waits")
          /\ ValueOf(block, "waits") = block.counters.waits

\* A report with one core that switched and one that did not.
C12_Witness ==
    /\ results.printed
    /\ Len(results.core_blocks) = 2
    /\ \E b1, b2 \in ReportedBlocks :
          /\ b1.counters.total_switches = 0
          /\ b1.counters.waits = 1
          /\ ~HasLine(b1, "% voluntary switches")
          /\ b2.counters.total_switches = 1
          /\ HasLine(b2, "% direct switches")

----------------------------------------------------------------------------
(* C13: initialize_stream returns a non-empty message for a serial stream,  *)
(* initialize_shard_type for every shard type but SHARD_BY_CORE, and        *)
(* process_memref returns false with error_string_ set; none of the three   *)
(* creates or changes a per_shard_t or an entry of shard_map_.              *)
SerialCall == returned' # returned \/ error_string_' # error_string_

C13_SerialModeRejected ==
    [][SerialCall =>
          /\ heap' = heap
          /\ shard_map_' = shard_map_
          /\ (returned'.call = "initialize_stream"
                /\ returned'.arg # "nullptr")
                => (returned'.message # "" /\ ~returned'.success)
          /\ (returned'.call = "initialize_shard_type"
                /\ returned'.arg # "SHARD_BY_CORE")
                => (returned'.message # "" /\ ~returned'.success)
          /\ returned'.call = "process_memref"
                => (~returned'.success /\ error_string_' # "")]_vars

\* Each entry point has been called where it must reject, the last one on a
\* tool that holds a shard with records.
C13_Witness ==
    /\ returned.call = "initialize_stream"
    /\ returned.arg # "nullptr"
    /\ returned.message = ONLY_CORE_SHARDED
    /\ error_string_ # ""
    /\ \E w \in Workers : Registered(w) /\ Shard(w).counters.instrs = 2

----------------------------------------------------------------------------
(* C14: the timeline of every shard is append-only.  In every step          *)
(* (parallel_shard_memref, parallel_shard_exit, print_results and the       *)
(* registration steps) the timeline of every existing shard is a prefix of  *)
(* its timeline after the step, and what the step appends is at most three  *)
(* characters (separator, letter, quantum letter), each a letter, the       *)
(* separator or the wait symbol.                                            *)
IsPrefix(s, t) == Len(s) <= Len(t) /\ SubSeq(t, 1, Len(s)) = s

TimelineChars ==
    {Letters[i] : i \in 1 .. NumLetters} \cup {THREAD_SEPARATOR, WAIT_SYMBOL}

C14_TimelineAppendOnly ==
    [][\A a \in Addrs :
          heap[a].allocated =>
             /\ heap'[a].allocated
             /\ IsPrefix(heap[a].thread_sequence, heap'[a].thread_sequence)
             /\ Len(heap'[a].thread_sequence)
                   <= Len(heap[a].thread_sequence) + 3
             /\ \A i \in 1 .. Len(heap'[a].thread_sequence) :
                   heap'[a].thread_sequence[i] \in TimelineChars]_vars

\* A timeline grown by a quantum letter, a wait symbol and a switch of three
\* characters, after parallel_shard_exit and print_results have run.
C14_Witness ==
    /\ results.printed
    /\ \E w \in Workers :
          /\ Registered(w)
          /\ Shard(w).thread_sequence = <<"A", "A", "-", ",", "B", "B">>

----------------------------------------------------------------------------
(* C15 as stated: cur_segment_instrs and the boundary flags are reset only  *)
(* by instruction records: no marker (CORE_WAIT included), data or          *)
(* thread-exit record sets cur_segment_instrs back to 0 or clears a flag.   *)
OtherRecordStep(w) == Processed(w) /\ ~IsInstr(Current(w))

FlagsKept(w) ==
    /\ Shard(w).saw_maybe_blocking => Shard(w).saw_maybe_blocking'
    /\ Shard(w).saw_exit => Shard(w).saw_exit'
    /\ Shard(w).direct_switch_target # INVALID_THREAD_ID
          => Shard(w).direct_switch_target' # INVALID_THREAD_ID

SegmentReset(w) ==
    /\ Shard(w).cur_segment_instrs # 0
    /\ Shard(w).cur_segment_instrs' = 0

C15_ResetOnlyAtInstructions ==
    [][\A w \in Workers :
          OtherRecordStep(w) => (FlagsKept(w) /\ ~SegmentReset(w))]_vars

(* C15 amended: no record other than an instruction clears a boundary flag; *)
(* such a record sets cur_segment_instrs back to 0 only when it is the      *)
(* first CORE_WAIT after a non-wait record (or of the shard) or when it is  *)
(* a non-wait record of an input other than the core's last occupant.       *)
FirstWait(w) ==
    /\ IsWait(Current(w))
    /\ (records[w] = << >> \/ ~IsWait(records[w][Len(records[w])]))

OccupantChange(w) ==
    /\ ~IsWait(Current(w))
    /\ Current(w).input # Occupant(records[w])

C15_FlagsKeptCountResetAtWaitOrSwitch ==
    [][\A w \in Workers :
          OtherRecordStep(w) =>
             /\ FlagsKept(w)
             /\ SegmentReset(w) => (FirstWait(w) \/ OccupantChange(w))]_vars

\* An instruction, a MAYBE_BLOCKING_SYSCALL marker and a CORE_WAIT: the wait
\* has reset the count of 1 and the marker's flag is still set.
C15_Witness ==
    /\ knob_print_every_ >= 2
    /\ \E w \in Workers :
          /\ Registered(w)
          /\ Len(records[w]) = 3
          /\ IsInstr(records[w][1])
          /\ IsMarker(records[w][2], "TRACE_MARKER_TYPE_MAYBE_BLOCKING_SYSCALL")
          /\ records[w][2].input = records[w][1].input
          /\ IsWait(records[w][3])
          /\ Shard(w).saw_maybe_blocking
          /\ Shard(w).cur_segment_instrs = 0

----------------------------------------------------------------------------
(* C16: in every state that follows a non-wait record, with print_every >=  *)
(* 1, cur_segment_instrs is below print_every and equals the number of      *)
(* instruction records of the current occupant since its last timeline mark *)
(* or switch, also when CORE_WAIT records interrupted the occupant's run.   *)
(* The count is taken since the occupant arrived, or since the last wait    *)
(* symbol when that is read as a timeline mark; either reading is accepted. *)
InstrsSince(tr, from) == Cardinality({i \in from .. Len(tr) : IsInstr(tr[i])})

LastWait(tr) == MaxOf({0} \cup {i \in 1 .. Len(tr) : IsWait(tr[i])})

\* Instructions of the occupant since its last quantum mark.
SinceMarkOrSwitch(tr, every) == InstrsSince(tr, StayStart(tr)) % every

\* The same, a wait symbol being a mark too.
SinceMarkWaitOrSwitch(tr, every) ==
    InstrsSince(tr, MaxOf({StayStart(tr), LastWait(tr) + 1})) % every

C16_SegmentCountsInstructions ==
    \A w \in Workers :
       ( /\ Registered(w)
         /\ knob_print_every_ >= 1
         /\ records[w] # << >>
         /\ ~IsWait(records[w][Len(records[w])]) )
       => /\ Shard(w).cur_segment_instrs < knob_print_every_
          /\ Shard(w).cur_segment_instrs
                \in {SinceMarkOrSwitch(records[w], knob_print_every_),
                     SinceMarkWaitOrSwitch(records[w], knob_print_every_)}

----------------------------------------------------------------------------
(* C17: every instruction record is an instruction boundary.  Right after   *)
(* it direct_switch_target is INVALID_THREAD_ID and saw_maybe_blocking and  *)
(* saw_exit are false; and a switch at a later record, with no              *)
(* MAYBE_BLOCKING_SYSCALL, thread-exit or DIRECT_THREAD_SWITCH record since *)
(* the instruction and a valid thread id on the incoming record, is counted *)
(* neither voluntary nor direct.                                            *)
IsEvidence(rec) ==
    \/ IsMarker(rec, "TRACE_MARKER_TYPE_MAYBE_BLOCKING_SYSCALL")
    \/ IsMarker(rec, "TRACE_MARKER_TYPE_DIRECT_THREAD_SWITCH")
    \/ IsExit(rec)

CleanSinceInstr(tr) ==
    /\ LastInstr(tr) > 0
    /\ \A i \in (LastInstr(tr) + 1) .. Len(tr) : ~IsEvidence(tr[i])

C17_InstructionIsBoundary ==
    [][\A w \in Workers :
          /\ (Processed(w) /\ IsInstr(Current(w))) =>
                /\ Shard(w).direct_switch_target' = INVALID_THREAD_ID
                /\ ~Shard(w).saw_maybe_blocking'
                /\ ~Shard(w).saw_exit'
          /\ ( /\ SwitchStep(w)
               /\ CleanSinceInstr(records[w])
               /\ Current(w).memref.tid # INVALID_THREAD_ID ) =>
                /\ Shard(w).counters.total_switches' =
                      Shard(w).counters.total_switches + 1
                /\ Shard(w).counters.voluntary_switches' =
                      Shard(w).counters.voluntary_switches
                /\ Shard(w).counters.direct_switches' =
                      Shard(w).counters.direct_switches]_vars

\* A thread exit, then an instruction of the same input, then a record of
\* another input: the switch is counted, but not as voluntary or direct.
C17_Witness ==
    \E w \in Workers :
       /\ Registered(w)
       /\ Len(records[w]) = 3
       /\ IsExit(records[w][1])
       /\ IsInstr(records[w][2])
       /\ records[w][2].input = records[w][1].input
       /\ records[w][3].input # records[w][2].input
       /\ ~IsWait(records[w][3])
       /\ records[w][3].memref.tid # INVALID_THREAD_ID
       /\ Shard(w).counters.total_switches = 1
       /\ Shard(w).counters.voluntary_switches = 0
       /\ Shard(w).counters.direct_switches = 0

----------------------------------------------------------------------------
(* C18: the first input observed on a core is not a context switch.  As     *)
(* long as all non-wait records of a shard carry one and the same input,    *)
(* total_switches is 0 and the timeline has no separator, also when         *)
(* CORE_WAIT records came before the first non-wait record.                 *)
InputsSeen(tr) == {tr[i].input : i \in {j \in 1 .. Len(tr) : ~IsWait(tr[j])}}

C18_FirstInputIsNoSwitch ==
    \A w \in Workers :
       (Registered(w) /\ Cardinality(InputsSeen(records[w])) <= 1)
       => /\ Shard(w).counters.total_switches = 0
          /\ Count(Shard(w).thread_sequence, THREAD_SEPARATOR) = 0

----------------------------------------------------------------------------
(* C19: in every state of a shard direct_switches <= direct_switch_requests:*)
(* every switch counted direct is backed by a DIRECT_THREAD_SWITCH marker   *)
(* of its own, processed on that shard.                                     *)
C19_DirectBackedByRequest ==
    \A w \in Workers :
       Registered(w) =>
          Shard(w).counters.direct_switches
             <= Shard(w).counters.direct_switch_requests

----------------------------------------------------------------------------
(* C20: in every state of a shard the timeline has as many separators as    *)
(* total_switches counts, every separator is immediately followed by a      *)
(* letter, and voluntary_switches and direct_switches are at most           *)
(* total_switches.                                                          *)
IsLetter(ch) == \E i \in 1 .. NumLetters : Letters[i] = ch

SeparatorsThenLetters(seq) ==
    \A i \in 1 .. Len(seq) :
       seq[i] = THREAD_SEPARATOR => (i < Len(seq) /\ IsLetter(seq[i + 1]))

C20_SeparatorsCountSwitches ==
    \A w \in Workers :
       Registered(w) =>
          /\ Count(Shard(w).thread_sequence, THREAD_SEPARATOR)
                = Shard(w).counters.total_switches
          /\ SeparatorsThenLetters(Shard(w).thread_sequence)
          /\ Shard(w).counters.voluntary_switches
                <= Shard(w).counters.total_switches
          /\ Shard(w).counters.direct_switches
                <= Shard(w).counters.total_switches

\* Two switches, one of them counted voluntary and one direct.
C20_Witness ==
    \E w \in Workers :
       /\ Registered(w)
       /\ Shard(w).counters.total_switches = 2
       /\ Shard(w).counters.voluntary_switches = 1
       /\ Shard(w).counters.direct_switches = 1
       /\ Count(Shard(w).thread_sequence, THREAD_SEPARATOR) = 2

====
